---- MODULE Spec2Model ----
(***************************************************************************)
(* Model of event_bridge_log_shared: the configuration models of           *)
(* utils/config.py (AWSConfig, ApplicationConfig, Settings, build_settings *)
(* and the role ARN helpers) and the analytics event models of             *)
(* models/events/analytics.py.                                             *)
(*                                                                         *)
(* Python strings are TLA+ strings; None and an unset environment variable *)
(* are the two values None and Unset, which no input string equals.        *)
(*                                                                         *)
(* Four specifications share the variables: Spec (the configuration        *)
(* models called with keyword arguments), ProcessSpec (the import of the   *)
(* configuration module, construction from the environment alone and       *)
(* attribute assignment), EventSpec (the event models) and SessionSpec     *)
(* (several UserSessionEvents alive at once, and the list objects their    *)
(* conversion_events refer to).                                            *)
(***************************************************************************)
EXTENDS Integers, Sequences, FiniteSets, TLC

VARIABLES
    module,     \* utils/config.py as imported: what its class bodies left behind
    environ,    \* os.environ restricted to the variables the models read
    obj,        \* the object the last constructor call produced (NoObject if none)
    call,       \* the last call: operation, arguments, environment seen, outcome
    uuids,      \* how many UUIDs uuid4 has generated so far
    clock       \* the current UTC time, in ticks

vars == <<module, environ, obj, call, uuids, clock>>

-----------------------------------------------------------------------------
(* Bounds of the model.                                                    *)

\* at most this many keyword overrides in one constructor call
MaxOverrides == 2

\* at most this many fields of an event call differ from a valid baseline call
MaxDeviations == 2

\* at most this many UUIDs are generated
MaxUuids == 2

\* the clock advances at most this many ticks
MaxClock == 1

\* at most this many attribute assignments to one configuration object
MaxAssignments == 1

\* a list a caller appends to grows to at most this many items
MaxListLen == 2
MaxEvents == 2

-----------------------------------------------------------------------------
(* Python values and string operations.                                    *)

None == "<None>"
Unset == "<unset>"

\* Python truthiness of an Optional[str]
Truthy(v) == v # None /\ v # ""

\* what an f-string puts for a value: str(None) is "None", a string is itself
Str(v) == IF v = None THEN "None" ELSE v

\* str.startswith
StartsWith(s, p) == Len(s) >= Len(p) /\ SubSeq(s, 1, Len(p)) = p

UpperChars == <<"A","B","C","D","E","F","G","H","I","J","K","L","M",
                "N","O","P","Q","R","S","T","U","V","W","X","Y","Z">>
LowerChars == <<"a","b","c","d","e","f","g","h","i","j","k","l","m",
                "n","o","p","q","r","s","t","u","v","w","x","y","z">>

LowerChar(c) ==
    IF \E i \in 1..26 : UpperChars[i] = c
    THEN LowerChars[CHOOSE i \in 1..26 : UpperChars[i] = c]
    ELSE c

UpperChar(c) ==
    IF \E i \in 1..26 : LowerChars[i] = c
    THEN UpperChars[CHOOSE i \in 1..26 : LowerChars[i] = c]
    ELSE c

RECURSIVE Lower(_)
\* str.lower
Lower(s) ==
    IF Len(s) = 0 THEN ""
    ELSE LowerChar(SubSeq(s, 1, 1)) \o Lower(SubSeq(s, 2, Len(s)))

RECURSIVE Upper(_)
\* str.upper
Upper(s) ==
    IF Len(s) = 0 THEN ""
    ELSE UpperChar(SubSeq(s, 1, 1)) \o Upper(SubSeq(s, 2, Len(s)))

\* the outcome of a validator: a value, or a raised ValueError
Ok(v) == [ok |-> TRUE, v |-> v]
Raised(msg) == [ok |-> FALSE, v |-> msg]

NoObject == [kind |-> "none"]

\* the empty mapping: a call with no keyword arguments
NoKwargs == << >>

RECURSIVE Assignments(_, _)
\* every mapping of the fields D to values of their input sets
Assignments(D, Inputs) ==
    IF D = {} THEN {NoKwargs}
    ELSE LET f == CHOOSE x \in D : TRUE
         IN  {a @@ (f :> v) : a \in Assignments(D \ {f}, Inputs), v \in Inputs[f]}

RECURSIVE SubsetsUpTo(_, _)
\* the subsets of S with at most n elements
SubsetsUpTo(S, n) ==
    IF n = 0 THEN {{}}
    ELSE LET smaller == SubsetsUpTo(S, n - 1)
         IN  smaller \cup {D \cup {x} : D \in smaller, x \in S}

\* every keyword mapping over Fields with at most n entries
KwargsUpTo(Fields, Inputs, n) ==
    UNION {Assignments(D, Inputs) : D \in SubsetsUpTo(Fields, n)}

-----------------------------------------------------------------------------
(* The process environment.                                                *)

EnvVars == {"ENVIRONMENT", "EVENTBRIDGE_BUS_NAME", "LOG_LEVEL"}

EnvInputs ==
    [ENVIRONMENT          |-> {"production", "Staging"},
     EVENTBRIDGE_BUS_NAME |-> {"production-bus"},
     LOG_LEVEL            |-> {"ERROR"}]

\* os.environ.get(name): a variable outside the modelled ones is not set
Getenv(env, name) == IF name \in DOMAIN env THEN env[name] ELSE Unset

\* BaseSettings: a field takes its keyword argument when one is given, else
\* its environment variable when that is set, else its declared default
SourceValue(kwargs, env, f, EnvName, Defaults) ==
    IF f \in DOMAIN kwargs THEN kwargs[f]
    ELSE IF f \in DOMAIN EnvName /\ Getenv(env, EnvName[f]) # Unset
         THEN Getenv(env, EnvName[f])
    ELSE Defaults[f]

-----------------------------------------------------------------------------
(* AWSConfig                                                               *)

AWSFields ==
    {"environment", "region", "dev_account_id", "prod_account_id",
     "deployment_role_name", "execution_role_name",
     "profile", "access_key_id", "secret_access_key", "session_token",
     "eventbridge_bus_name", "eventbridge_source", "dynamodb_table_name",
     "opensearch_endpoint", "opensearch_index"}

AWSDefaults ==
    [environment          |-> "development",
     region               |-> "us-east-1",
     dev_account_id       |-> None,
     prod_account_id      |-> None,
     deployment_role_name |-> "EventBridgeLogDeploymentRole",
     execution_role_name  |-> "EventBridgeLogExecutionRole",
     profile              |-> None,
     access_key_id        |-> None,
     secret_access_key    |-> None,
     session_token        |-> None,
     eventbridge_bus_name |-> "event-bridge-log-bus",
     eventbridge_source   |-> "ecommerce.platform",
     dynamodb_table_name  |-> "event-bridge-log-events",
     opensearch_endpoint  |-> None,
     opensearch_index     |-> "events"]

\* the environment variable each field declaration names (env="...")
AWSDocumentedEnvName ==
    [environment          |-> "ENVIRONMENT",
     region               |-> "AWS_REGION",
     dev_account_id       |-> "AWS_DEV_ACCOUNT_ID",
     prod_account_id      |-> "AWS_PROD_ACCOUNT_ID",
     deployment_role_name |-> "AWS_DEPLOYMENT_ROLE_NAME",
     execution_role_name  |-> "AWS_EXECUTION_ROLE_NAME",
     profile              |-> "AWS_PROFILE",
     access_key_id        |-> "AWS_ACCESS_KEY_ID",
     secret_access_key    |-> "AWS_SECRET_ACCESS_KEY",
     session_token        |-> "AWS_SESSION_TOKEN",
     eventbridge_bus_name |-> "EVENTBRIDGE_BUS_NAME",
     eventbridge_source   |-> "EVENTBRIDGE_SOURCE",
     dynamodb_table_name  |-> "DYNAMODB_TABLE_NAME",
     opensearch_endpoint  |-> "OPENSEARCH_ENDPOINT",
     opensearch_index     |-> "OPENSEARCH_INDEX"]

\* the environment variable that supplies each AWSConfig field: pydantic_settings
\* BaseSettings looks a field up under its own name (case_sensitive = False,
\* no prefix, no alias) and does not read the env= argument of Field
AWSEnvName == [f \in AWSFields |-> Upper(f)]

\* values a caller passes for each field
AWSInputs ==
    [environment          |-> {None, "", "development", "production",
                               "PRODUCTION", "Development", "staging", "prod"},
     region               |-> {None, "", " ", "eu-west-1"},
     dev_account_id       |-> {None, "", "123456789012"},
     prod_account_id      |-> {None, "987654321098"},
     deployment_role_name |-> {"DeployRole"},
     execution_role_name  |-> {"ExecRole"},
     profile              |-> {"local"},
     access_key_id        |-> {"AKIAEXAMPLE"},
     secret_access_key    |-> {"secret"},
     session_token        |-> {"token"},
     eventbridge_bus_name |-> {"", "bus", "production-bus", "development-bus"},
     eventbridge_source   |-> {"orders.service", "production-source"},
     dynamodb_table_name  |-> {"events", "production"},
     opensearch_endpoint  |-> {"https://search.example.com"},
     opensearch_index     |-> {"idx", "development-idx"}]

\* coalesce_region replacing None only, not the empty string
coalesce_region_none_only(v) ==
    IF v = None THEN Ok("us-east-1") ELSE Ok(v)

\* AWSConfig.coalesce_region
coalesce_region(v) ==
    IF ~Truthy(v) THEN Ok("us-east-1") ELSE Ok(v)

\* normalize_environment comparing the raw value, without lower-casing it
normalize_environment_no_lower(v) ==
    LET val == IF Truthy(v) THEN v ELSE "development"
    IN  IF val \notin {"development", "production"}
        THEN Ok("development")
        ELSE Ok(val)

\* AWSConfig.normalize_environment
normalize_environment(v) ==
    LET val == Lower(IF Truthy(v) THEN v ELSE "development")
    IN  IF val \notin {"development", "production"}
        THEN Ok("development")
        ELSE Ok(val)

\* the resource names with eventbridge_source among them
ResourceNames_with_source ==
    {"eventbridge_bus_name", "eventbridge_source", "dynamodb_table_name",
     "opensearch_index"}

\* the fields add_environment_prefix validates
ResourceNames == {"eventbridge_bus_name", "dynamodb_table_name", "opensearch_index"}

\* add_environment_prefix testing for the environment without the dash
add_environment_prefix_no_dash(v, values) ==
    LET environment == IF "environment" \in DOMAIN values
                       THEN values["environment"] ELSE "development"
    IN  IF ~StartsWith(v, environment)
        THEN Ok(environment \o "-" \o v)
        ELSE Ok(v)

\* add_environment_prefix prefixing every name, prefixed already or not
add_environment_prefix_always(v, values) ==
    LET environment == IF "environment" \in DOMAIN values
                       THEN values["environment"] ELSE "development"
    IN  Ok(environment \o "-" \o v)

\* AWSConfig.add_environment_prefix; values holds the fields validated so far
add_environment_prefix(v, values) ==
    LET environment == IF "environment" \in DOMAIN values
                       THEN values["environment"] ELSE "development"
    IN  IF ~StartsWith(v, environment \o "-")
        THEN Ok(environment \o "-" \o v)
        ELSE Ok(v)

\* a field that has no validator of its own
plain(v) == Ok(v)

\* the validated fields of `values` extended by field f when its validator passed
With(values, f, r) == IF r.ok THEN values @@ (f :> r.v) ELSE values

\* the fields of AWSConfig in the order the class declares them, which is
\* the order they are validated in
AWSFieldOrder ==
    <<"environment", "region", "dev_account_id", "prod_account_id",
      "deployment_role_name", "execution_role_name",
      "profile", "access_key_id", "secret_access_key", "session_token",
      "eventbridge_bus_name", "eventbridge_source", "dynamodb_table_name",
      "opensearch_endpoint", "opensearch_index">>

\* the validator registered for field f, applied to v with the fields
\* validated so far
AWSValidate(f, v, values) ==
    IF f = "environment" THEN normalize_environment(v)
    ELSE IF f = "region" THEN coalesce_region(v)
    ELSE IF f \in ResourceNames THEN add_environment_prefix(v, values)
    ELSE plain(v)

RECURSIVE AWSValidated(_, _)
\* the validated values of the first i fields: each validator sees the
\* fields before it that passed
AWSValidated(raw, i) ==
    IF i = 0 THEN NoKwargs
    ELSE LET values == AWSValidated(raw, i - 1)
             f == AWSFieldOrder[i]
         IN  With(values, f, AWSValidate(f, raw[f], values))

RECURSIVE AWSValidated_raw_prefix(_, _)
\* AWSValidated with each validator seeing the environment as supplied
AWSValidated_raw_prefix(raw, i) ==
    IF i = 0 THEN NoKwargs
    ELSE LET values == AWSValidated_raw_prefix(raw, i - 1)
             f == AWSFieldOrder[i]
         IN  With(values, f,
                  AWSValidate(f, raw[f], [environment |-> Str(raw["environment"])]))

\* AWSConfig with the resource names validated against the environment as
\* supplied instead of the validated one
AWSConfig_raw_prefix(kwargs, env) ==
    LET raw == [f \in AWSFields |-> SourceValue(kwargs, env, f, AWSEnvName, AWSDefaults)]
        v == AWSValidated_raw_prefix(raw, Len(AWSFieldOrder))
    IN  IF DOMAIN v = AWSFields
        THEN [kind |-> "AWSConfig", f |-> v]
        ELSE [kind |-> "ValidationError", fields |-> AWSFields \ DOMAIN v]

\* AWSConfig(**kwargs) under the process environment env: the fields are
\* validated in declaration order, each validator seeing the ones before it
AWSConfig(kwargs, env) ==
    LET raw == [f \in AWSFields |-> SourceValue(kwargs, env, f, AWSEnvName, AWSDefaults)]
        v == AWSValidated(raw, Len(AWSFieldOrder))
    IN  IF DOMAIN v = AWSFields
        THEN [kind |-> "AWSConfig", f |-> v]
        ELSE [kind |-> "ValidationError", fields |-> AWSFields \ DOMAIN v]

\* get_account_id falling back to the other environment's account
get_account_id_fallback(self) ==
    IF self.f["environment"] = "production"
    THEN IF Truthy(self.f["prod_account_id"])
         THEN self.f["prod_account_id"] ELSE self.f["dev_account_id"]
    ELSE IF Truthy(self.f["dev_account_id"])
         THEN self.f["dev_account_id"] ELSE self.f["prod_account_id"]

\* AWSConfig.get_account_id
get_account_id(self) ==
    IF self.f["environment"] = "production"
    THEN self.f["prod_account_id"]
    ELSE self.f["dev_account_id"]

\* build_role_arn with one colon less before the account id
build_role_arn_one_colon(account_id, role_name) ==
    "arn:aws:iam:" \o Str(account_id) \o ":role/" \o Str(role_name)

\* build_role_arn
build_role_arn(account_id, role_name) ==
    "arn:aws:iam::" \o Str(account_id) \o ":role/" \o Str(role_name)

\* get_deployment_role_arn testing the account id against None only
get_deployment_role_arn_not_none(self) ==
    LET account_id == IF self.f["environment"] = "production"
                      THEN self.f["prod_account_id"] ELSE self.f["dev_account_id"]
    IN  IF account_id # None
        THEN "arn:aws:iam::" \o account_id \o ":role/" \o self.f["deployment_role_name"]
        ELSE None

\* AWSConfig.get_deployment_role_arn
get_deployment_role_arn(self) ==
    LET account_id == get_account_id(self)
    IN  IF Truthy(account_id)
        THEN "arn:aws:iam::" \o account_id \o ":role/" \o self.f["deployment_role_name"]
        ELSE None

\* AWSConfig.get_execution_role_arn
get_execution_role_arn(self) ==
    LET account_id == get_account_id(self)
    IN  IF Truthy(account_id)
        THEN "arn:aws:iam::" \o account_id \o ":role/" \o self.f["execution_role_name"]
        ELSE None

-----------------------------------------------------------------------------
(* ApplicationConfig                                                       *)

AppFields == {"app_name", "environment", "debug", "log_level"}

\* the Python values True and False, which no input string equals
PyTrue == "<True>"
PyFalse == "<False>"

AppDefaults ==
    [app_name    |-> "Event Bridge Log Producer",
     environment |-> "development",
     debug       |-> PyTrue,
     log_level   |-> "INFO"]

\* the environment variable each field declaration names (env="...")
AppDocumentedEnvName ==
    [app_name    |-> "APP_NAME",
     environment |-> "ENVIRONMENT",
     debug       |-> "DEBUG",
     log_level   |-> "LOG_LEVEL"]

\* the environment variable that supplies each ApplicationConfig field: the
\* field's own name
AppEnvName == [f \in AppFields |-> Upper(f)]

AppInputs ==
    [app_name    |-> {"ServiceA"},
     debug       |-> {PyFalse, "maybe"},
     environment |-> {None, "", "production", "PRODUCTION", "Development",
                      "staging", "prod"},
     log_level   |-> {"CRITICAL", "ERROR", "WARNING", "INFO", "DEBUG",
                      "critical", "error", "warning", "info", "debug",
                      "Info", "Debug", "NOTSET", "notset", "INVALID", "warn", ""}]

\* validate_environment coercing an unrecognised value instead of raising
validate_environment_lenient(v) ==
    LET val == Lower(IF Truthy(v) THEN v ELSE "development")
    IN  IF val \notin {"development", "production"}
        THEN Ok("development")
        ELSE Ok(val)

\* ApplicationConfig.validate_environment
validate_environment(v) ==
    LET val == Lower(IF Truthy(v) THEN v ELSE "development")
    IN  IF val \notin {"development", "production"}
        THEN Raised("environment must be development or production")
        ELSE Ok(val)

\* validate_log_level comparing the upper-cased value
validate_log_level_any_case(v) ==
    LET allowed == {"CRITICAL", "ERROR", "WARNING", "INFO", "DEBUG"}
    IN  IF Upper(v) \notin allowed
        THEN Raised("invalid log level")
        ELSE Ok(v)

\* ApplicationConfig.validate_log_level
validate_log_level(v) ==
    LET allowed == {"CRITICAL", "ERROR", "WARNING", "INFO", "DEBUG",
                    "critical", "error", "warning", "info", "debug"}
    IN  IF v \notin allowed
        THEN Raised("invalid log level")
        ELSE Ok(v)

\* validation of a bool field: a bool is kept, the strings pydantic reads as
\* a truth value are converted, anything else is refused
validate_bool(v) ==
    IF v \in {PyTrue, PyFalse} THEN Ok(v)
    ELSE IF v = None THEN Raised("bool_type")
    ELSE IF Lower(v) \in {"1", "on", "t", "true", "y", "yes"} THEN Ok(PyTrue)
    ELSE IF Lower(v) \in {"0", "off", "f", "false", "n", "no"} THEN Ok(PyFalse)
    ELSE Raised("bool_parsing")

\* ApplicationConfig(**kwargs) under the process environment env
ApplicationConfig(kwargs, env) ==
    LET raw(f) == SourceValue(kwargs, env, f, AppEnvName, AppDefaults)
        v1 == With(NoKwargs, "app_name", plain(raw("app_name")))
        v2 == With(v1, "environment", validate_environment(raw("environment")))
        v3 == With(v2, "debug", validate_bool(raw("debug")))
        v4 == With(v3, "log_level", validate_log_level(raw("log_level")))
    IN  IF DOMAIN v4 = AppFields
        THEN [kind |-> "ApplicationConfig", f |-> v4]
        ELSE [kind |-> "ValidationError", fields |-> AppFields \ DOMAIN v4]

-----------------------------------------------------------------------------
(* Settings and build_settings                                             *)

\* build_settings(aws=..., app=...) under the process environment env; a
\* failing sub-config propagates its ValidationError
build_settings(aws, app, env) ==
    LET aws_cfg == AWSConfig(aws, env)
        app_cfg == ApplicationConfig(app, env)
    IN  IF aws_cfg.kind = "ValidationError" THEN aws_cfg
        ELSE IF app_cfg.kind = "ValidationError" THEN app_cfg
        ELSE [kind |-> "Settings", aws |-> aws_cfg, app |-> app_cfg]

\* the module before its first import
NotImported == [kind |-> "unloaded"]

\* import event_bridge_log_shared.utils.config under the process environment
\* env: the class body of Settings evaluates AWSConfig() and
\* ApplicationConfig() for its field defaults, and a ValidationError raised
\* there leaves no module behind
ImportConfigModule(env) ==
    LET aws == AWSConfig(NoKwargs, env)
        app == ApplicationConfig(NoKwargs, env)
    IN  IF aws.kind = "ValidationError" THEN [kind |-> "ImportFailed", error |-> aws]
        ELSE IF app.kind = "ValidationError" THEN [kind |-> "ImportFailed", error |-> app]
        ELSE [kind |-> "module", aws |-> aws, app |-> app]

\* Settings(): both fields take the class-level defaults of the module
Settings(mod) == [kind |-> "Settings", aws |-> mod.aws, app |-> mod.app]

-----------------------------------------------------------------------------
(* The caller's operations on the configuration models. The caller holds   *)
(* one configuration object at a time: it prepares the environment,        *)
(* constructs, queries, releases.                                          *)

\* the keyword mappings with exactly n entries, for n up to MaxOverrides
AWSKwargs == [n \in 0..MaxOverrides |->
                {k \in KwargsUpTo(AWSFields, AWSInputs, n) : Cardinality(DOMAIN k) = n}]
AppKwargs == [n \in 0..MaxOverrides |->
                {k \in KwargsUpTo(AppFields, AppInputs, n) : Cardinality(DOMAIN k) = n}]

\* the overrides a service passes to build_settings
SettingsAWSInputs ==
    [environment          |-> {"production", "Staging"},
     region               |-> {"eu-west-1"},
     dev_account_id       |-> {"123456789012"},
     prod_account_id      |-> {"987654321098"},
     deployment_role_name |-> {"DeployRole"},
     execution_role_name  |-> {"ExecRole"},
     eventbridge_bus_name |-> {"bus"},
     dynamodb_table_name  |-> {"events"},
     opensearch_index     |-> {"idx"}]

SettingsAppInputs ==
    [app_name    |-> {"ServiceA"},
     debug       |-> {PyFalse},
     environment |-> {"production", "staging"},
     log_level   |-> {"debug", "Info"}]

SettingsAWSKwargs == [n \in 0..MaxOverrides |->
                {k \in KwargsUpTo(DOMAIN SettingsAWSInputs, SettingsAWSInputs, n) :
                    Cardinality(DOMAIN k) = n}]
SettingsAppKwargs == [n \in 0..MaxOverrides |->
                {k \in KwargsUpTo(AppFields, SettingsAppInputs, n) : Cardinality(DOMAIN k) = n}]

Environments == {e \in [EnvVars -> UNION {EnvInputs[n] : n \in EnvVars} \cup {Unset}] :
                    \A n \in EnvVars : e[n] \in EnvInputs[n] \cup {Unset}}

\* what a constructor call leaves behind: the object, or nothing when it raised
Produced(ret) == IF ret.kind = "ValidationError" THEN NoObject ELSE ret

\* os.environ[name] = value
SetEnv ==
    \E n \in EnvVars : \E v \in EnvInputs[n] :
        /\ call.op = "none"
        /\ environ' = [environ EXCEPT ![n] = v]
        /\ UNCHANGED <<module, obj, call, uuids, clock>>

\* del os.environ[name]
UnsetEnv ==
    \E n \in EnvVars :
        /\ call.op = "none"
        /\ environ[n] # Unset
        /\ environ' = [environ EXCEPT ![n] = Unset]
        /\ UNCHANGED <<module, obj, call, uuids, clock>>

\* config = AWSConfig(**kwargs)
NewAWSConfig ==
    /\ call.op = "none"
    /\ \E n \in 0..MaxOverrides : \E kwargs \in AWSKwargs[n] :
        LET ret == AWSConfig(kwargs, environ)
        IN  /\ call' = [op |-> "AWSConfig", kwargs |-> kwargs, env |-> environ, ret |-> ret]
            /\ obj' = Produced(ret)
            /\ UNCHANGED <<module, environ, uuids, clock>>

\* config = ApplicationConfig(**kwargs)
NewApplicationConfig ==
    /\ call.op = "none"
    /\ \E n \in 0..MaxOverrides : \E kwargs \in AppKwargs[n] :
        LET ret == ApplicationConfig(kwargs, environ)
        IN  /\ call' = [op |-> "ApplicationConfig", kwargs |-> kwargs, env |-> environ,
                        ret |-> ret]
            /\ obj' = Produced(ret)
            /\ UNCHANGED <<module, environ, uuids, clock>>

\* cfg = build_settings(aws=aws, app=app)
BuildSettings ==
    /\ call.op = "none"
    /\ \E n \in 0..MaxOverrides : \E m \in 0..(MaxOverrides - n) :
       \E aws \in SettingsAWSKwargs[n] : \E app \in SettingsAppKwargs[m] :
        /\ LET ret == build_settings(aws, app, environ)
           IN  /\ call' = [op |-> "build_settings", aws |-> aws, app |-> app,
                           env |-> environ, ret |-> ret]
               /\ obj' = Produced(ret)
        /\ UNCHANGED <<module, environ, uuids, clock>>

\* del config: the caller drops the object in hand
Release ==
    /\ call.op # "none"
    /\ obj' = NoObject
    /\ call' = [op |-> "none"]
    /\ UNCHANGED <<module, environ, uuids, clock>>

\* the AWSConfig the caller can reach through the object in hand
Reachable(o) == IF o.kind = "Settings" THEN o.aws ELSE o

\* config.get_account_id()
GetAccountId ==
    /\ Reachable(obj).kind = "AWSConfig"
    /\ call' = [op |-> "get_account_id", self |-> Reachable(obj),
                ret |-> get_account_id(Reachable(obj))]
    /\ UNCHANGED <<module, environ, obj, uuids, clock>>

\* config.get_deployment_role_arn()
GetDeploymentRoleArn ==
    /\ Reachable(obj).kind = "AWSConfig"
    /\ call' = [op |-> "get_deployment_role_arn", self |-> Reachable(obj),
                ret |-> get_deployment_role_arn(Reachable(obj))]
    /\ UNCHANGED <<module, environ, obj, uuids, clock>>

\* config.get_execution_role_arn()
GetExecutionRoleArn ==
    /\ Reachable(obj).kind = "AWSConfig"
    /\ call' = [op |-> "get_execution_role_arn", self |-> Reachable(obj),
                ret |-> get_execution_role_arn(Reachable(obj))]
    /\ UNCHANGED <<module, environ, obj, uuids, clock>>

\* the arguments a caller passes to build_role_arn
RoleArnAccountInputs == {None, "", "123456789012", "not an account"}
RoleArnRoleInputs == {"", "DeployRole"}

\* arn = build_role_arn(account_id, role_name): with a configuration in hand
\* the caller passes its account id and deployment role name, otherwise
\* values of its own
BuildRoleArn ==
    LET c == Reachable(obj)
        own == c.kind = "AWSConfig"
    IN  /\ ~own => call.op = "none"
        /\ \E account_id \in IF own THEN {get_account_id(c)} ELSE RoleArnAccountInputs :
           \E role_name \in IF own THEN {c.f["deployment_role_name"]} ELSE RoleArnRoleInputs :
                call' = [op |-> "build_role_arn", account_id |-> account_id,
                         role_name |-> role_name, self |-> c,
                         ret |-> build_role_arn(account_id, role_name)]
        /\ UNCHANGED <<module, environ, obj, uuids, clock>>

\* again = AWSConfig(environment=config.environment,
\*                   eventbridge_bus_name=config.eventbridge_bus_name,
\*                   dynamodb_table_name=config.dynamodb_table_name,
\*                   opensearch_index=config.opensearch_index)
ReconstructAWSConfig ==
    LET c == Reachable(obj)
    IN  /\ c.kind = "AWSConfig"
        /\ LET kwargs == [f \in ResourceNames \cup {"environment"} |-> c.f[f]]
           IN  call' = [op |-> "reconstruct", original |-> c, kwargs |-> kwargs,
                        ret |-> AWSConfig(kwargs, environ)]
        /\ UNCHANGED <<module, environ, obj, uuids, clock>>

\* the names utils/config.py binds: its imports, classes and functions
ConfigNames ==
    {"Optional", "Dict", "Any", "Field", "validator", "field_validator",
     "BaseSettings", "AWSConfig", "ApplicationConfig", "Settings",
     "build_role_arn", "build_settings"}

\* what `from event_bridge_log_shared.utils.config import name` raises for a
\* name the module does not bind
ImportError == "<ImportError>"

\* from ...utils.config import name: the name when the module binds it
FromConfigImport(name) == IF name \in ConfigNames THEN name ELSE ImportError

\* the arguments the tests pass to the helpers
NormalizeEnvInputs == {None, "", "development", "dev", "production", "prod"}
PrefixNameEnvInputs == {"dev", "prod"}
PrefixNameInputs == {"events", "prod-events", "dev-events"}

\* from ...utils.config import normalize_env; normalize_env(value)
NormalizeEnv ==
    /\ call.op = "none"
    /\ \E value \in NormalizeEnvInputs :
        call' = [op |-> "normalize_env", value |-> value,
                 ret |-> FromConfigImport("normalize_env")]
    /\ UNCHANGED <<module, environ, obj, uuids, clock>>

\* from ...utils.config import prefix_name; prefix_name(short_env, name)
PrefixName ==
    /\ call.op = "none"
    /\ \E short_env \in PrefixNameEnvInputs : \E name \in PrefixNameInputs :
        call' = [op |-> "prefix_name", short_env |-> short_env, name |-> name,
                 ret |-> FromConfigImport("prefix_name")]
    /\ UNCHANGED <<module, environ, obj, uuids, clock>>

Init ==
    /\ module = ImportConfigModule([n \in EnvVars |-> Unset])
    /\ environ \in Environments
    /\ obj = NoObject
    /\ call = [op |-> "none"]
    /\ uuids = 0
    /\ clock = 0

Next ==
    \/ SetEnv
    \/ UnsetEnv
    \/ NewAWSConfig
    \/ NewApplicationConfig
    \/ BuildSettings
    \/ GetAccountId
    \/ GetDeploymentRoleArn
    \/ GetExecutionRoleArn
    \/ BuildRoleArn
    \/ ReconstructAWSConfig
    \/ NormalizeEnv
    \/ PrefixName
    \/ Release

Spec == Init /\ [][Next]_vars

-----------------------------------------------------------------------------
(* The configuration module in a process: the module is imported, the      *)
(* environment changes, the caller constructs with no arguments and        *)
(* assigns attributes of the object in hand.                               *)

ProcessEnvVars ==
    {"ENVIRONMENT", "DEBUG", "LOG_LEVEL", "AWS_REGION", "REGION", "AWS_DEV_ACCOUNT_ID"}

ProcessEnvInputs ==
    [ENVIRONMENT        |-> {"production", "Staging"},
     DEBUG              |-> {"false"},
     LOG_LEVEL          |-> {"ERROR"},
     AWS_REGION         |-> {"us-west-2"},
     REGION             |-> {"eu-central-1"},
     AWS_DEV_ACCOUNT_ID |-> {"123456789012"}]

\* os.environ[name] = value, before a construction
SetProcessEnv ==
    \E n \in ProcessEnvVars : \E v \in ProcessEnvInputs[n] :
        /\ call.op = "none"
        /\ environ' = [environ EXCEPT ![n] = v]
        /\ UNCHANGED <<module, obj, call, uuids, clock>>

\* del os.environ[name], before a construction
UnsetProcessEnv ==
    \E n \in ProcessEnvVars :
        /\ call.op = "none"
        /\ environ[n] # Unset
        /\ environ' = [environ EXCEPT ![n] = Unset]
        /\ UNCHANGED <<module, obj, call, uuids, clock>>

\* import event_bridge_log_shared.utils.config: the first import, or another
\* attempt after one that raised
ImportConfig ==
    /\ module.kind # "module"
    /\ call.op = "none"
    /\ module' = ImportConfigModule(environ)
    /\ UNCHANGED <<environ, obj, call, uuids, clock>>

\* config = AWSConfig()
LoadAWSConfig ==
    /\ module.kind = "module"
    /\ call.op = "none"
    /\ LET ret == AWSConfig(NoKwargs, environ)
       IN  /\ call' = [op |-> "AWSConfig", kwargs |-> NoKwargs, env |-> environ, ret |-> ret]
           /\ obj' = Produced(ret)
    /\ UNCHANGED <<module, environ, uuids, clock>>

\* config = ApplicationConfig()
LoadApplicationConfig ==
    /\ module.kind = "module"
    /\ call.op = "none"
    /\ LET ret == ApplicationConfig(NoKwargs, environ)
       IN  /\ call' = [op |-> "ApplicationConfig", kwargs |-> NoKwargs, env |-> environ,
                       ret |-> ret]
           /\ obj' = Produced(ret)
    /\ UNCHANGED <<module, environ, uuids, clock>>

\* settings = Settings()
NewSettings ==
    /\ module.kind = "module"
    /\ call.op = "none"
    /\ LET ret == Settings(module)
       IN  /\ call' = [op |-> "Settings", env |-> environ, ret |-> ret]
           /\ obj' = ret
    /\ UNCHANGED <<module, environ, uuids, clock>>

\* the values a caller assigns to an attribute
SetAttrInputs ==
    [environment |-> {"production", "PRODUCTION"},
     region      |-> {""},
     log_level   |-> {"verbose"}]

\* the fields of the sub-object `part` of o ("self" for o itself)
FieldsOf(o, part) == IF part = "self" THEN o.f ELSE o[part].f

\* o with field name of its sub-object `part` holding value
Assigned(o, part, name, value) ==
    IF part = "self" THEN [o EXCEPT !.f[name] = value]
    ELSE [o EXCEPT ![part].f[name] = value]

\* how many assignments the object in hand has received
AssignmentsSoFar == IF call.op = "setattr" THEN call.nth ELSE 0

\* config.name = value, settings.aws.name = value, settings.app.name = value:
\* the classes set neither frozen nor validate_assignment, so the value is
\* stored as given and no validator runs
SetAttr ==
    /\ obj.kind \in {"AWSConfig", "ApplicationConfig", "Settings"}
    /\ AssignmentsSoFar < MaxAssignments
    /\ \E part \in IF obj.kind = "Settings" THEN {"aws", "app"} ELSE {"self"} :
       \E name \in DOMAIN SetAttrInputs \cap DOMAIN FieldsOf(obj, part) :
       \E value \in SetAttrInputs[name] :
            /\ call' = [op |-> "setattr", self |-> obj, part |-> part, name |-> name,
                        value |-> value, nth |-> AssignmentsSoFar + 1]
            /\ obj' = Assigned(obj, part, name, value)
    /\ UNCHANGED <<module, environ, uuids, clock>>

ProcessInit ==
    /\ module = NotImported
    /\ environ = [n \in ProcessEnvVars |-> Unset]
    /\ obj = NoObject
    /\ call = [op |-> "none"]
    /\ uuids = 0
    /\ clock = 0

ProcessNext ==
    \/ SetProcessEnv
    \/ UnsetProcessEnv
    \/ ImportConfig
    \/ LoadAWSConfig
    \/ LoadApplicationConfig
    \/ NewSettings
    \/ SetAttr
    \/ Release

ProcessSpec == ProcessInit /\ [][ProcessNext]_vars

-----------------------------------------------------------------------------
(* Event models. A Python value is a record tagged with its type.          *)

\* (the payload is named by its representation: s a string, n a number,
\* b a Boolean, m an enumeration member, l a sequence, d a mapping)
PyStr(s)      == [t |-> "str", s |-> s]
PyInt(n)      == [t |-> "int", n |-> n]
PyFloat(n)    == [t |-> "float", n |-> n]
PyBool(b)     == [t |-> "bool", b |-> b]
PyDateTime(n) == [t |-> "datetime", n |-> n]
PyUuid(n)     == [t |-> "uuid", n |-> n]
PyEnum(m)     == [t |-> "EventType", m |-> m]
PyList(l)     == [t |-> "list", l |-> l]
PyDict(d)     == [t |-> "dict", d |-> d]
NoneV       == [t |-> "none"]
\* an object() instance: a value no field type accepts
Junk        == [t |-> "object"]

\* EventType members and their values
EventTypeValue ==
    [REVIEW_SUBMITTED |-> "review.submitted",
     USER_SESSION     |-> "user.session",
     PAGE_VIEW        |-> "page.view",
     ORDER_CREATED    |-> "order.created"]

EventTypeMembers == DOMAIN EventTypeValue

DigitChars == <<"0","1","2","3","4","5","6","7","8","9">>

IsDigit(c) == \E i \in 1..10 : DigitChars[i] = c

DigitValue(c) == (CHOOSE i \in 1..10 : DigitChars[i] = c) - 1

IsNumeric(s) == Len(s) > 0 /\ \A i \in 1..Len(s) : IsDigit(SubSeq(s, i, i))

RECURSIVE ParseInt(_)
\* int("...") of a string of decimal digits
ParseInt(s) ==
    IF Len(s) = 0 THEN 0
    ELSE 10 * ParseInt(SubSeq(s, 1, Len(s) - 1)) + DigitValue(SubSeq(s, Len(s), Len(s)))

\* a field declaration
Req(k)        == [kind |-> k, optional |-> FALSE, required |-> TRUE,  default |-> NoneV]
Opt(k)        == [kind |-> k, optional |-> TRUE,  required |-> FALSE, default |-> NoneV]
Def(k, d)     == [kind |-> k, optional |-> FALSE, required |-> FALSE, default |-> d]
Factory(k, g) == [kind |-> k, optional |-> FALSE, required |-> FALSE,
                  default |-> [t |-> "factory", g |-> g]]

\* type validation of one value against a declared type, converting the
\* inputs the type accepts in another spelling
ValidateType(kind, x) ==
    CASE kind = "str" ->
            IF x.t = "str" THEN Ok(x) ELSE Raised("string_type")
      [] kind = "int" ->
            IF x.t = "int" THEN Ok(x)
            ELSE IF x.t = "bool" THEN Ok(PyInt(IF x.b THEN 1 ELSE 0))
            ELSE IF x.t = "float" THEN Ok(PyInt(x.n))
            ELSE IF x.t = "str" /\ IsNumeric(x.s) THEN Ok(PyInt(ParseInt(x.s)))
            ELSE Raised("int_type")
      [] kind = "float" ->
            IF x.t = "float" THEN Ok(x)
            ELSE IF x.t = "int" THEN Ok(PyFloat(x.n))
            ELSE IF x.t = "bool" THEN Ok(PyFloat(IF x.b THEN 1 ELSE 0))
            ELSE IF x.t = "str" /\ IsNumeric(x.s) THEN Ok(PyFloat(ParseInt(x.s)))
            ELSE Raised("float_type")
      [] kind = "bool" ->
            IF x.t = "bool" THEN Ok(x)
            ELSE IF x.t \in {"int", "float"} /\ x.n \in {0, 1} THEN Ok(PyBool(x.n = 1))
            ELSE IF x.t = "str" /\ Lower(x.s) \in {"1", "on", "t", "true", "y", "yes"}
                 THEN Ok(PyBool(TRUE))
            ELSE IF x.t = "str" /\ Lower(x.s) \in {"0", "off", "f", "false", "n", "no"}
                 THEN Ok(PyBool(FALSE))
            ELSE Raised("bool_type")
      [] kind = "datetime" ->
            IF x.t = "datetime" THEN Ok(x)
            ELSE IF x.t \in {"int", "float"} THEN Ok(PyDateTime(x.n))
            ELSE IF x.t = "str" /\ IsNumeric(x.s) THEN Ok(PyDateTime(ParseInt(x.s)))
            ELSE Raised("datetime_type")
      [] kind = "uuid" ->
            IF x.t = "uuid" THEN Ok(x) ELSE Raised("uuid_type")
      [] kind = "EventType" ->
            IF x.t = "EventType" THEN Ok(x)
            ELSE IF x.t = "str" /\ \E m \in EventTypeMembers : EventTypeValue[m] = x.s
                 THEN Ok(PyEnum(CHOOSE m \in EventTypeMembers : EventTypeValue[m] = x.s))
            ELSE Raised("enum")
      [] kind = "list_str" ->
            IF x.t = "list" THEN Ok(x) ELSE Raised("list_type")
      [] kind = "dict" ->
            IF x.t = "dict" THEN Ok(x) ELSE Raised("dict_type")

\* validation of a supplied value against a field declaration
ValidateField(decl, x) ==
    IF decl.optional /\ x = NoneV THEN Ok(NoneV) ELSE ValidateType(decl.kind, x)

\* DefaultOf with each factory called once, when the class is defined,
\* and its result used as the default of every construction
DefaultOf_called_once(decl, uuid, now) ==
    IF decl.default.t # "factory" THEN decl.default
    ELSE CASE decl.default.g = "uuid4"  -> PyUuid(1)
           [] decl.default.g = "utcnow" -> PyDateTime(0)
           [] decl.default.g = "list"   -> PyList(<< >>)

\* the value of an omitted field: its default, or what its factory returns
DefaultOf(decl, uuid, now) ==
    IF decl.default.t # "factory" THEN decl.default
    ELSE CASE decl.default.g = "uuid4"  -> PyUuid(uuid)
           [] decl.default.g = "utcnow" -> PyDateTime(now)
           [] decl.default.g = "list"   -> PyList(<< >>)


\* BaseEvent's environment validator: lower-case, "development" on empty or
\* unrecognised input, never raising
normalize_event_environment(x) ==
    LET val == Lower(IF x.t = "str" /\ x.s # "" THEN x.s ELSE "development")
    IN  IF val \notin {"development", "production"}
        THEN Ok(PyStr("development"))
        ELSE Ok(PyStr(val))

\* BaseEvent: the fields every event carries
BaseEventFields ==
    [event_id       |-> Factory("uuid", "uuid4"),
     event_type     |-> Req("EventType"),
     timestamp      |-> Factory("datetime", "utcnow"),
     source         |-> Req("str"),
     environment    |-> Def("str", PyStr("development")),
     correlation_id |-> Opt("uuid"),
     user_id        |-> Opt("str"),
     metadata       |-> Opt("dict")]

\* ReviewSubmittedEvent with content given a default
ReviewSubmittedEventOwnFields_content_default ==
    [event_type        |-> Def("EventType", PyEnum("REVIEW_SUBMITTED")),
     review_id         |-> Req("str"),
     product_id        |-> Req("str"),
     product_name      |-> Req("str"),
     rating            |-> Req("int"),
     title             |-> Opt("str"),
     content           |-> Def("str", PyStr("")),
     reviewer_name     |-> Req("str"),
     verified_purchase |-> Def("bool", PyBool(FALSE)),
     review_source     |-> Req("str"),
     helpful_votes     |-> Def("int", PyInt(0)),
     is_approved       |-> Def("bool", PyBool(TRUE)),
     moderation_notes  |-> Opt("str")]

\* the fields ReviewSubmittedEvent declares
ReviewSubmittedEventOwnFields ==
    [event_type        |-> Def("EventType", PyEnum("REVIEW_SUBMITTED")),
     review_id         |-> Req("str"),
     product_id        |-> Req("str"),
     product_name      |-> Req("str"),
     rating            |-> Req("int"),
     title             |-> Opt("str"),
     content           |-> Req("str"),
     reviewer_name     |-> Req("str"),
     verified_purchase |-> Def("bool", PyBool(FALSE)),
     review_source     |-> Req("str"),
     helpful_votes     |-> Def("int", PyInt(0)),
     is_approved       |-> Def("bool", PyBool(TRUE)),
     moderation_notes  |-> Opt("str")]

\* UserSessionEvent with session_duration declared int (not Optional[int])
\* while keeping its None default
UserSessionEventOwnFields_duration_not_optional ==
    [event_type        |-> Def("EventType", PyEnum("USER_SESSION")),
     session_id        |-> Req("str"),
     session_start     |-> Req("datetime"),
     session_end       |-> Opt("datetime"),
     session_duration  |-> Def("int", NoneV),
     user_agent        |-> Req("str"),
     ip_address        |-> Req("str"),
     device_type       |-> Req("str"),
     browser           |-> Req("str"),
     operating_system  |-> Req("str"),
     country           |-> Opt("str"),
     region            |-> Opt("str"),
     city              |-> Opt("str"),
     page_views        |-> Def("int", PyInt(0)),
     actions_performed |-> Def("int", PyInt(0)),
     conversion_events |-> Factory("list_str", "list"),
     time_on_site      |-> Opt("int"),
     bounce_rate       |-> Opt("float")]

\* the fields UserSessionEvent declares
UserSessionEventOwnFields ==
    [event_type        |-> Def("EventType", PyEnum("USER_SESSION")),
     session_id        |-> Req("str"),
     session_start     |-> Req("datetime"),
     session_end       |-> Opt("datetime"),
     session_duration  |-> Opt("int"),
     user_agent        |-> Req("str"),
     ip_address        |-> Req("str"),
     device_type       |-> Req("str"),
     browser           |-> Req("str"),
     operating_system  |-> Req("str"),
     country           |-> Opt("str"),
     region            |-> Opt("str"),
     city              |-> Opt("str"),
     page_views        |-> Def("int", PyInt(0)),
     actions_performed |-> Def("int", PyInt(0)),
     conversion_events |-> Factory("list_str", "list"),
     time_on_site      |-> Opt("int"),
     bounce_rate       |-> Opt("float")]

\* the fields PageViewEvent declares
PageViewEventOwnFields ==
    [event_type      |-> Def("EventType", PyEnum("PAGE_VIEW")),
     page_url        |-> Req("str"),
     page_title      |-> Req("str"),
     page_category   |-> Req("str"),
     referrer_url    |-> Opt("str"),
     referrer_domain |-> Opt("str"),
     search_query    |-> Opt("str"),
     time_on_page    |-> Opt("int"),
     scroll_depth    |-> Opt("float"),
     page_load_time  |-> Opt("int"),
     page_size       |-> Opt("int"),
     content_type    |-> Req("str"),
     content_id      |-> Opt("str"),
     session_id      |-> Req("str"),
     page_sequence   |-> Req("int"),
     is_bounce       |-> Def("bool", PyBool(FALSE)),
     exit_page       |-> Def("bool", PyBool(FALSE))]

EventClasses == {"ReviewSubmittedEvent", "UserSessionEvent", "PageViewEvent"}

\* a subclass declares its own fields over the ones it inherits
EventFields ==
    [ReviewSubmittedEvent |-> ReviewSubmittedEventOwnFields @@ BaseEventFields,
     UserSessionEvent     |-> UserSessionEventOwnFields @@ BaseEventFields,
     PageViewEvent        |-> PageViewEventOwnFields @@ BaseEventFields]

\* cls(**kwargs): every field is validated and every failure collected; the
\* object exists only when no field failed
ConstructEvent(cls, kwargs, uuid, now) ==
    LET decls == EventFields[cls]
        res(f) ==
            IF f \in DOMAIN kwargs
            THEN IF f = "environment"
                 THEN normalize_event_environment(kwargs[f])
                 ELSE ValidateField(decls[f], kwargs[f])
            ELSE IF decls[f].required THEN Raised("missing")
            ELSE Ok(DefaultOf(decls[f], uuid, now))
        bad == {f \in DOMAIN decls : ~res(f).ok}
    IN  IF bad = {}
        THEN [kind |-> cls, f |-> [f \in DOMAIN decls |-> res(f).v]]
        ELSE [kind |-> "ValidationError", fields |-> bad]

\* the mapping representation of one field value
DumpValue(x) == IF x.t = "EventType" THEN PyStr(EventTypeValue[x.m]) ELSE x

\* event.model_dump()
model_dump(e) == [f \in DOMAIN e.f |-> DumpValue(e.f[f])]

\* cls.model_validate(mapping)
model_validate(cls, mapping, uuid, now) == ConstructEvent(cls, mapping, uuid, now)


-----------------------------------------------------------------------------
(* The caller's operations on events. The caller holds one event at a      *)
(* time: it constructs, serialises and reconstructs, releases.             *)

\* a keyword the caller leaves out
Absent == [t |-> "absent"]

\* a valid call of each event class
Baseline ==
    [ReviewSubmittedEvent |->
        [review_id     |-> PyStr("rev_123"),
         product_id    |-> PyStr("prod_123"),
         product_name  |-> PyStr("Wireless Headphones"),
         rating        |-> PyInt(5),
         content       |-> PyStr("Great"),
         reviewer_name |-> PyStr("John Doe"),
         review_source |-> PyStr("product_page"),
         source        |-> PyStr("frontend")],
     UserSessionEvent |->
        [session_id       |-> PyStr("sess_123"),
         session_start    |-> PyDateTime(0),
         user_agent       |-> PyStr("Mozilla/5.0"),
         ip_address       |-> PyStr("192.168.1.1"),
         device_type      |-> PyStr("desktop"),
         browser          |-> PyStr("Chrome"),
         operating_system |-> PyStr("macOS"),
         source           |-> PyStr("analytics-service")],
     PageViewEvent |->
        [page_url      |-> PyStr("https://example.com/products"),
         page_title    |-> PyStr("Products"),
         page_category |-> PyStr("product"),
         content_type  |-> PyStr("product"),
         session_id    |-> PyStr("sess_123"),
         page_sequence |-> PyInt(3),
         source        |-> PyStr("frontend")]]

\* the other values a caller passes for the inherited fields
BaseEventInputs ==
    [event_type  |-> {PyEnum("ORDER_CREATED"), PyEnum("PAGE_VIEW"),
                      PyStr("user.session"), Junk},
     event_id    |-> {PyUuid(9)},
     timestamp   |-> {PyDateTime(1)},
     environment |-> {PyStr("PRODUCTION"), PyStr("staging")},
     user_id     |-> {PyStr("user_123")},
     source      |-> {Absent, Junk}]

\* the other values a caller passes for each class's own fields
EventInputs ==
    [ReviewSubmittedEvent |->
        [review_id         |-> {Absent, NoneV},
         product_id        |-> {Absent},
         product_name      |-> {Absent},
         rating            |-> {Absent, Junk, PyStr("5")},
         content           |-> {Absent, Junk},
         reviewer_name     |-> {Absent},
         review_source     |-> {Absent},
         title             |-> {PyStr("Excellent"), Junk},
         helpful_votes     |-> {PyInt(12), Junk},
         verified_purchase |-> {PyStr("yes")}] @@ BaseEventInputs,
     UserSessionEvent |->
        [session_id        |-> {Absent, Junk},
         session_start     |-> {Absent, Junk, PyInt(1)},
         user_agent        |-> {Absent},
         ip_address        |-> {Absent, NoneV},
         device_type       |-> {Absent},
         browser           |-> {Absent},
         operating_system  |-> {Absent},
         session_end       |-> {PyDateTime(1), Junk},
         session_duration  |-> {PyInt(5400)},
         conversion_events |-> {PyList(<<"add_to_cart">>), Junk},
         bounce_rate       |-> {PyFloat(0)}] @@ BaseEventInputs,
     PageViewEvent |->
        [page_url      |-> {Absent, Junk},
         page_title    |-> {Absent},
         page_category |-> {Absent},
         content_type  |-> {Absent, NoneV},
         session_id    |-> {Absent},
         page_sequence |-> {Absent, Junk, PyStr("3")},
         search_query  |-> {NoneV, PyStr("headphones")},
         scroll_depth  |-> {PyFloat(75), Junk},
         is_bounce     |-> {PyBool(TRUE), PyInt(1)}] @@ BaseEventInputs]

\* the baseline call with the fields of `a` replaced or left out
Deviate(base, a) ==
    [f \in ((DOMAIN base) \ (DOMAIN a)) \cup {g \in DOMAIN a : a[g] # Absent} |->
        IF f \in DOMAIN a THEN a[f] ELSE base[f]]

\* the calls of each class that deviate from its baseline in exactly n fields
EventKwargs ==
    [cls \in EventClasses |-> [n \in 0..MaxDeviations |->
        {Deviate(Baseline[cls], a) :
            a \in {k \in KwargsUpTo(DOMAIN EventInputs[cls], EventInputs[cls], n) :
                      Cardinality(DOMAIN k) = n}}]]

IsEvent(o) == o.kind \in EventClasses

\* event = cls(**kwargs); uuid4 and utcnow run for the fields left out
NewEvent ==
    /\ call.op = "none"
    /\ \E cls \in EventClasses : \E n \in 0..MaxDeviations : \E kwargs \in EventKwargs[cls][n] :
        LET generated == "event_id" \notin DOMAIN kwargs
            ret == ConstructEvent(cls, kwargs, uuids + 1, clock)
        IN  /\ generated => uuids < MaxUuids
            /\ call' = [op |-> "Event", cls |-> cls, kwargs |-> kwargs, ret |-> ret,
                        issued |-> uuids, now |-> clock]
            /\ obj' = Produced(ret)
            /\ uuids' = IF generated THEN uuids + 1 ELSE uuids
            /\ UNCHANGED <<module, environ, clock>>

\* recreated = type(event).model_validate(event.model_dump())
RoundTrip ==
    /\ IsEvent(obj)
    /\ call.op = "Event"
    /\ LET mapping == model_dump(obj)
           generated == "event_id" \notin DOMAIN mapping
       IN  /\ generated => uuids < MaxUuids
           /\ call' = [op |-> "round_trip", original |-> obj, mapping |-> mapping,
                       ret |-> model_validate(obj.kind, mapping, uuids + 1, clock)]
           /\ uuids' = IF generated THEN uuids + 1 ELSE uuids
    /\ UNCHANGED <<module, environ, obj, clock>>

\* BaseEvent's model configuration: events are immutable records
BaseEventConfig == [frozen |-> TRUE]

\* the Config class each event class declares: an example for the schema
EventOwnConfig ==
    [ReviewSubmittedEvent |-> [schema_extra |-> "example"],
     UserSessionEvent     |-> [schema_extra |-> "example"],
     PageViewEvent        |-> [schema_extra |-> "example"]]

\* a class's configuration: its own settings over the ones it inherits
EventConfig(cls) == EventOwnConfig[cls] @@ BaseEventConfig

\* the values a caller assigns to an attribute of an event
EventSetAttrInputs ==
    [event_type |-> {PyEnum("ORDER_CREATED")},
     event_id   |-> {PyUuid(9)},
     source     |-> {PyStr("other")}]

\* event.name = value: refused on a frozen model, stored as given otherwise
SetEventAttr ==
    /\ IsEvent(obj)
    /\ call.op = "Event"
    /\ \E name \in DOMAIN EventSetAttrInputs : \E value \in EventSetAttrInputs[name] :
        LET frozen == EventConfig(obj.kind).frozen
        IN  /\ call' = [op |-> "event_setattr", self |-> obj, name |-> name,
                        value |-> value,
                        ret |-> IF frozen THEN "frozen_instance" ELSE "stored"]
            /\ obj' = IF frozen THEN obj ELSE [obj EXCEPT !.f[name] = value]
    /\ UNCHANGED <<module, environ, uuids, clock>>

\* event.conversion_events.append(item): the field holds a list, which the
\* caller changes in place
AppendConversionEvent ==
    /\ obj.kind = "UserSessionEvent"
    /\ Len(obj.f["conversion_events"].l) < MaxListLen
    /\ \E item \in {"purchase"} :
        /\ call' = [op |-> "append", self |-> obj, item |-> item]
        /\ obj' = [obj EXCEPT !.f["conversion_events"] = PyList(Append(@.l, item))]
    /\ UNCHANGED <<module, environ, uuids, clock>>

\* time passes
Tick ==
    /\ clock < MaxClock
    /\ clock' = clock + 1
    /\ UNCHANGED <<module, environ, obj, call, uuids>>

EventInit ==
    /\ module = ImportConfigModule([n \in EnvVars |-> Unset])
    /\ environ = [n \in EnvVars |-> Unset]
    /\ obj = NoObject
    /\ call = [op |-> "none"]
    /\ uuids = 0
    /\ clock = 0

EventNext ==
    \/ NewEvent
    \/ RoundTrip
    \/ SetEventAttr
    \/ AppendConversionEvent
    \/ Tick
    \/ Release

EventSpec == EventInit /\ [][EventNext]_vars

-----------------------------------------------------------------------------
(* Several UserSessionEvents alive at once. A list is an object: obj holds *)
(* the list objects by address and the events the caller keeps, each       *)
(* event's conversion_events being the address of its list.                *)

\* a reference to the list object at address a
PyRef(a) == [t |-> "ref", a |-> a]

\* the caller keeps no event yet, and no list exists
NoSessions == [kind |-> "sessions", lists |-> << >>, events |-> << >>]

\* list() handing out the list object it made last, when there is one
list_factory_reused(lists) ==
    IF lists = << >> THEN [lists |-> << << >> >>, at |-> 1]
    ELSE [lists |-> lists, at |-> Len(lists)]

\* default_factory=list: list() makes a new, empty list object, at an
\* address no other object has
list_factory(lists) == [lists |-> Append(lists, << >>), at |-> Len(lists) + 1]

\* validation of a supplied List[str] builds a new list with the items of
\* the caller's list
copy_list(lists, l) == [lists |-> Append(lists, l), at |-> Len(lists) + 1]

\* the conversion_events a caller passes to UserSessionEvent
SessionInputs == {Absent, PyList(<<"add_to_cart">>), Junk}

\* the items a caller appends
SessionItems == {"purchase", "signup"}

\* the list of the i-th event the caller keeps
ConversionEvents(o, i) == o.lists[o.events[i].f["conversion_events"].a]

\* events.append(UserSessionEvent(**kwargs)): the event's list is the
\* factory's when conversion_events is left out, a copy of the caller's
\* otherwise; a refused call leaves nothing behind
NewUserSessionEvent ==
    /\ obj.kind = "sessions"
    /\ Len(obj.events) < MaxEvents
    /\ uuids < MaxUuids
    /\ \E x \in SessionInputs :
        LET kwargs == Deviate(Baseline["UserSessionEvent"], [conversion_events |-> x])
            ret == ConstructEvent("UserSessionEvent", kwargs, uuids + 1, clock)
            placed == IF ret.kind = "ValidationError" THEN [lists |-> obj.lists, at |-> 0]
                      ELSE IF "conversion_events" \in DOMAIN kwargs
                      THEN copy_list(obj.lists, ret.f["conversion_events"].l)
                      ELSE list_factory(obj.lists)
            event == [ret EXCEPT !.f["conversion_events"] = PyRef(placed.at)]
        IN  /\ call' = [op |-> "UserSessionEvent", kwargs |-> kwargs, before |-> obj,
                        ok |-> ret.kind # "ValidationError"]
            /\ obj' = IF ret.kind = "ValidationError" THEN obj
                      ELSE [obj EXCEPT !.lists = placed.lists,
                                       !.events = Append(@, event)]
            /\ uuids' = uuids + 1
    /\ UNCHANGED <<module, environ, clock>>

\* events[i].conversion_events.append(item): the list object the event
\* refers to grows, whoever else refers to it
AppendToEvent ==
    /\ obj.kind = "sessions"
    /\ \E i \in 1..Len(obj.events) : \E item \in SessionItems :
        LET a == obj.events[i].f["conversion_events"].a
        IN  /\ Len(obj.lists[a]) < MaxListLen
            /\ call' = [op |-> "session_append", target |-> i, item |-> item,
                        before |-> obj]
            /\ obj' = [obj EXCEPT !.lists[a] = Append(@, item)]
    /\ UNCHANGED <<module, environ, uuids, clock>>

SessionInit ==
    /\ module = ImportConfigModule([n \in EnvVars |-> Unset])
    /\ environ = [n \in EnvVars |-> Unset]
    /\ obj = NoSessions
    /\ call = [op |-> "none"]
    /\ uuids = 0
    /\ clock = 0

SessionNext ==
    \/ NewUserSessionEvent
    \/ AppendToEvent
    \/ Tick

SessionSpec == SessionInit /\ [][SessionNext]_vars

-----------------------------------------------------------------------------
(* Properties of the configuration models.                                 *)

\* equality of two strings up to letter case
CaseEq(a, b) == Upper(a) = Upper(b)

\* the process environment with no variable set
CleanEnv == [n \in EnvVars |-> Unset]

\* the raw value the last constructor call received for field f
SuppliedAWS(f) == SourceValue(call.kwargs, call.env, f, AWSEnvName, AWSDefaults)
SuppliedApp(f) == SourceValue(call.kwargs, call.env, f, AppEnvName, AppDefaults)

\* C1: every AWSConfig object, constructed from defaults, environment
\* variables or keyword overrides (directly or inside a Settings), has its
\* three resource names starting with its own environment followed by "-".
C1_ResourceNamesPrefixed ==
    LET c == Reachable(obj)
    IN  c.kind = "AWSConfig" =>
            \A n \in ResourceNames : StartsWith(c.f[n], c.f["environment"] \o "-")

\* C1 witness: an AWSConfig whose environment came from the ENVIRONMENT
\* variable and whose table name is the prefixed built-in default.
C1_Witness ==
    /\ call.op = "AWSConfig"
    /\ "environment" \notin DOMAIN call.kwargs
    /\ call.env["ENVIRONMENT"] = "production"
    /\ obj.kind = "AWSConfig"
    /\ obj.f["dynamodb_table_name"] = "production-event-bridge-log-events"

\* C2 (as claimed): build_settings returns the Settings that the overrides
\* and the built-in defaults alone determine, whatever the process
\* environment holds.
C2_BuildSettingsIgnoresEnvironment ==
    call.op = "build_settings" =>
        call.ret = build_settings(call.aws, call.app, CleanEnv)

\* C3: AWSConfig construction never fails on the environment input; the
\* stored environment is "production" when the input equals that word in any
\* letter case and "development" for every other input (absent, empty,
\* "development" in any case, or unrecognised).
C3_AWSEnvironmentNormalised ==
    call.op = "AWSConfig" =>
        LET v == SuppliedAWS("environment")
        IN  /\ call.ret.kind = "AWSConfig"
            /\ call.ret.f["environment"] \in {"development", "production"}
            /\ call.ret.f["environment"] =
                 IF Truthy(v) /\ CaseEq(v, "production")
                 THEN "production" ELSE "development"

\* C3 witness: an upper-case input stored lower-cased.
C3_Witness ==
    /\ call.op = "AWSConfig"
    /\ "environment" \in DOMAIN call.kwargs
    /\ call.kwargs["environment"] = "PRODUCTION"
    /\ obj.kind = "AWSConfig"
    /\ obj.f["environment"] = "production"

\* C4: ApplicationConfig construction with an environment that is neither
\* "development" nor "production" up to letter case raises a validation
\* failure naming the field and yields no object; a recognised value is
\* stored lower-cased and an absent or empty one as "development".
C4_AppEnvironmentStrict ==
    call.op = "ApplicationConfig" =>
        LET v == SuppliedApp("environment")
            recognised == CaseEq(v, "development") \/ CaseEq(v, "production")
        IN  IF Truthy(v) /\ ~recognised
            THEN /\ call.ret.kind = "ValidationError"
                 /\ "environment" \in call.ret.fields
                 /\ obj = NoObject
            ELSE IF call.ret.kind = "ValidationError"
            THEN "environment" \notin call.ret.fields
            ELSE call.ret.f["environment"] =
                    IF Truthy(v) /\ CaseEq(v, "production")
                    THEN "production" ELSE "development"

\* C4 witness: an unrecognised environment was rejected and no object exists.
C4_Witness ==
    /\ call.op = "ApplicationConfig"
    /\ "environment" \in DOMAIN call.kwargs
    /\ call.kwargs["environment"] = "staging"
    /\ call.ret.kind = "ValidationError"
    /\ obj = NoObject

\* whether the last ApplicationConfig call accepted its log_level
LogLevelAccepted ==
    \/ call.ret.kind = "ApplicationConfig"
    \/ call.ret.kind = "ValidationError" /\ "log_level" \notin call.ret.fields

\* the six standard severity names
StandardSeverities == {"CRITICAL", "ERROR", "WARNING", "INFO", "DEBUG", "NOTSET"}

\* C5 (as claimed): ApplicationConfig accepts a log_level exactly when it is
\* one of the six standard severity names compared case-insensitively.
C5_LogLevelCaseInsensitive ==
    call.op = "ApplicationConfig" =>
        (LogLevelAccepted <=> Upper(SuppliedApp("log_level")) \in StandardSeverities)

\* C5 (amended): ApplicationConfig accepts a log_level exactly when it is one
\* of the five names CRITICAL, ERROR, WARNING, INFO, DEBUG written entirely in
\* upper case or entirely in lower case, and stores an accepted value as given.
C5_LogLevelUpperOrLower ==
    call.op = "ApplicationConfig" =>
        LET v == SuppliedApp("log_level")
            five == StandardSeverities \ {"NOTSET"}
        IN  /\ LogLevelAccepted <=> \E n \in five : v = n \/ v = Lower(n)
            /\ call.ret.kind = "ApplicationConfig" => call.ret.f["log_level"] = v

\* C5 witness: a mixed-case severity name was rejected.
C5_Witness ==
    /\ call.op = "ApplicationConfig"
    /\ "log_level" \in DOMAIN call.kwargs
    /\ call.kwargs["log_level"] = "Info"
    /\ call.ret.kind = "ValidationError"
    /\ "log_level" \in call.ret.fields

\* the account id of an AWSConfig's own environment
OwnAccountId(c) ==
    IF c.f["environment"] = "production"
    THEN c.f["prod_account_id"] ELSE c.f["dev_account_id"]

\* C9: get_deployment_role_arn and get_execution_role_arn return
\* "arn:aws:iam::{account_id}:role/{role_name}" for the account id of the
\* current environment and the respective role name, and return None when
\* that account id is absent or empty.
C9_RoleArn ==
    /\ call.op = "get_deployment_role_arn" =>
          call.ret = IF OwnAccountId(call.self) \in {None, ""} THEN None
                     ELSE "arn:aws:iam::" \o OwnAccountId(call.self) \o ":role/"
                            \o call.self.f["deployment_role_name"]
    /\ call.op = "get_execution_role_arn" =>
          call.ret = IF OwnAccountId(call.self) \in {None, ""} THEN None
                     ELSE "arn:aws:iam::" \o OwnAccountId(call.self) \o ":role/"
                            \o call.self.f["execution_role_name"]
    /\ call.op \in {"get_deployment_role_arn", "get_execution_role_arn"} /\ call.ret # None =>
          ~StartsWith(call.ret, "arn:aws:iam:::")

\* C9 witness: an empty account id gave no ARN.
C9_Witness ==
    /\ call.op = "get_deployment_role_arn"
    /\ call.self.f["environment"] = "development"
    /\ call.self.f["dev_account_id"] = ""
    /\ call.ret = None

\* C10: get_account_id returns prod_account_id when the environment is
\* "production" and dev_account_id otherwise, never the other one.
C10_AccountIdOfEnvironment ==
    call.op = "get_account_id" =>
        /\ call.self.f["environment"] = "production" =>
              call.ret = call.self.f["prod_account_id"]
        /\ call.self.f["environment"] # "production" =>
              call.ret = call.self.f["dev_account_id"]

\* C10 witness: production with only the development account configured
\* returned no account id.
C10_Witness ==
    /\ call.op = "get_account_id"
    /\ call.self.f["environment"] = "production"
    /\ call.self.f["prod_account_id"] = None
    /\ call.self.f["dev_account_id"] = "123456789012"
    /\ call.ret = None

\* C11: AWSConfig stores region "us-east-1" when the supplied region is
\* absent, None or the empty string, and stores every other supplied region
\* unchanged (a string of spaces included: it is not empty).
C11_RegionCoalesced ==
    call.op = "AWSConfig" =>
        LET v == SuppliedAWS("region")
        IN  /\ call.ret.kind = "AWSConfig"
            /\ call.ret.f["region"] = IF v \in {None, ""} THEN "us-east-1" ELSE v

\* C11 witness: an empty region was replaced by the default region.
C11_Witness ==
    /\ call.op = "AWSConfig"
    /\ "region" \in DOMAIN call.kwargs
    /\ call.kwargs["region"] = ""
    /\ obj.kind = "AWSConfig"
    /\ obj.f["region"] = "us-east-1"

\* C12: build_role_arn(account_id, role_name) returns "arn:aws:iam::" +
\* account_id + ":role/" + role_name for every pair of arguments, rejecting
\* none (an empty or malformed account id is formatted like any other), and
\* for a configuration with a configured account id it returns what
\* get_deployment_role_arn() returns when given get_account_id() and
\* deployment_role_name.
C12_BuildRoleArnFormats ==
    call.op = "build_role_arn" =>
        /\ call.ret = "arn:aws:iam::" \o Str(call.account_id) \o ":role/"
                          \o Str(call.role_name)
        /\ (call.self.kind = "AWSConfig" /\ Truthy(OwnAccountId(call.self))) =>
                call.ret = get_deployment_role_arn(call.self)

\* C12 witness: the helper, given a production configuration's account id
\* and deployment role name, returned the configuration's deployment role ARN.
C12_Witness ==
    /\ call.op = "build_role_arn"
    /\ call.self.kind = "AWSConfig"
    /\ call.self.f["environment"] = "production"
    /\ call.account_id = "987654321098"
    /\ call.role_name = "DeployRole"
    /\ call.ret = "arn:aws:iam::987654321098:role/DeployRole"
    /\ call.ret = get_deployment_role_arn(call.self)

\* C13 (as claimed): normalize_env(value) returns "dev" when value is None,
\* the empty string, "development" or "dev", and returns "prod" when value is
\* "production" or "prod".
C13_NormalizeEnv ==
    call.op = "normalize_env" =>
        /\ call.value \in {None, "", "development", "dev"} => call.ret = "dev"
        /\ call.value \in {"production", "prod"} => call.ret = "prod"

\* C14 (as claimed): prefix_name(short_env, name) returns short_env + "-" +
\* name when name does not start with that prefix and name unchanged when it
\* does, so that applying it to its own result changes nothing.
C14_PrefixNameIdempotent ==
    call.op = "prefix_name" =>
        LET prefix == call.short_env \o "-"
        IN  /\ call.ret = IF StartsWith(call.name, prefix) THEN call.name
                          ELSE prefix \o call.name
            /\ StartsWith(call.ret, prefix)

\* C15: constructing an AWSConfig from the environment and the three resource
\* names of an already constructed AWSConfig yields those names unchanged:
\* the prefix is never applied twice.
C15_PrefixAppliedOnce ==
    call.op = "reconstruct" =>
        /\ call.ret.kind = "AWSConfig"
        /\ call.ret.f["environment"] = call.original.f["environment"]
        /\ \A n \in ResourceNames : call.ret.f[n] = call.original.f[n]

\* C15 witness: a configuration whose bus name had received the prefix was
\* constructed again from its own values and kept the single prefix.
C15_Witness ==
    /\ call.op = "reconstruct"
    /\ call.original.f["environment"] = "production"
    /\ call.kwargs["eventbridge_bus_name"] = "production-event-bridge-log-bus"
    /\ call.ret.kind = "AWSConfig"
    /\ call.ret.f["eventbridge_bus_name"] = "production-event-bridge-log-bus"

\* what the variable documented for field f held at the last construction,
\* or the field's default when that variable was not set
Documented(f, DocumentedEnvName, Defaults) ==
    IF Getenv(call.env, DocumentedEnvName[f]) # Unset
    THEN Getenv(call.env, DocumentedEnvName[f])
    ELSE Defaults[f]

\* C16 (as claimed): a configuration object constructed with no arguments
\* takes each field from its documented environment variable when that
\* variable is set (ENVIRONMENT, AWS_REGION, AWS_DEV_ACCOUNT_ID, ... for
\* AWSConfig; ENVIRONMENT, DEBUG, LOG_LEVEL for ApplicationConfig) and from
\* the stated default when it is absent.
C16_FieldsFromDocumentedVariables ==
    /\ (call.op = "AWSConfig" /\ DOMAIN call.kwargs = {}) =>
          /\ call.ret.kind = "AWSConfig"
          /\ call.ret.f["environment"] =
                IF CaseEq(Documented("environment", AWSDocumentedEnvName, AWSDefaults),
                          "production")
                THEN "production" ELSE "development"
          /\ \A f \in {"region", "dev_account_id", "prod_account_id",
                        "deployment_role_name", "execution_role_name"} :
                call.ret.f[f] = Documented(f, AWSDocumentedEnvName, AWSDefaults)
    /\ (call.op = "ApplicationConfig" /\ DOMAIN call.kwargs = {}
            /\ call.ret.kind = "ApplicationConfig") =>
          /\ call.ret.f["environment"] =
                Lower(Documented("environment", AppDocumentedEnvName, AppDefaults))
          /\ call.ret.f["debug"] =
                IF Documented("debug", AppDocumentedEnvName, AppDefaults) = "false"
                THEN PyFalse ELSE PyTrue
          /\ call.ret.f["log_level"] =
                Documented("log_level", AppDocumentedEnvName, AppDefaults)

\* C17 (as claimed): AWSConfig, ApplicationConfig and Settings objects are
\* immutable after construction: an attribute assignment changes no field of
\* the object, so the prefix of the resource names never disagrees with the
\* object's environment.
C17_ConfigImmutable ==
    /\ call.op = "setattr" => obj = call.self
    /\ Reachable(obj).kind = "AWSConfig" =>
          \A n \in ResourceNames :
              StartsWith(Reachable(obj).f[n], Reachable(obj).f["environment"] \o "-")

\* C20 (as claimed): importing the configuration module reads no
\* environment variable and constructs no configuration object (so the import
\* cannot fail on the environment and leaves the same module whatever the
\* environment holds), and a Settings constructed later is built from the
\* environment variables set at its construction.
C20_NothingBoundAtImport ==
    /\ module.kind # "ImportFailed"
    /\ module.kind = "module" =>
          module = ImportConfigModule([n \in ProcessEnvVars |-> Unset])
    /\ call.op = "Settings" =>
          call.ret = build_settings(NoKwargs, NoKwargs, call.env)

-----------------------------------------------------------------------------
(* Properties of the event models.                                         *)

\* the tag each event class gives event_type
FixedTag ==
    [ReviewSubmittedEvent |-> "REVIEW_SUBMITTED",
     UserSessionEvent     |-> "USER_SESSION",
     PageViewEvent        |-> "PAGE_VIEW"]

\* the fields each event class requires
RequiredFields ==
    [ReviewSubmittedEvent |-> {"source", "review_id", "product_id", "product_name",
                               "rating", "content", "reviewer_name", "review_source"},
     UserSessionEvent     |-> {"source", "session_id", "session_start", "user_agent",
                               "ip_address", "device_type", "browser",
                               "operating_system"},
     PageViewEvent        |-> {"source", "page_url", "page_title", "page_category",
                               "content_type", "session_id", "page_sequence"}]

\* C6 (as claimed): every successfully constructed instance of an event
\* subtype has event_type equal to the subtype's fixed tag, whatever
\* event_type the caller supplied.
C6_EventTypeFixed ==
    call.op = "Event" /\ IsEvent(call.ret) =>
        call.ret.f["event_type"] = PyEnum(FixedTag[call.cls])

\* the fields of the last event call that are missing though required, or
\* hold a value of a type the field cannot take (an arbitrary object, or None
\* for a required field)
ViolatedFields ==
    {f \in RequiredFields[call.cls] : f \notin DOMAIN call.kwargs}
        \cup {f \in DOMAIN call.kwargs :
                \/ call.kwargs[f] = Junk
                \/ call.kwargs[f] = NoneV /\ f \in RequiredFields[call.cls]}

\* C7: constructing an event with required fields missing or wrongly typed
\* fails with a validation error naming every violated field, and produces
\* no event object.
C7_AllViolationsReported ==
    call.op = "Event" /\ ViolatedFields # {} =>
        /\ call.ret.kind = "ValidationError"
        /\ call.ret.fields = ViolatedFields
        /\ obj = NoObject

\* C7 witness: a call with one required field missing and another wrongly
\* typed was rejected naming both.
C7_Witness ==
    /\ call.op = "Event"
    /\ call.cls = "ReviewSubmittedEvent"
    /\ "content" \notin DOMAIN call.kwargs
    /\ "rating" \in DOMAIN call.kwargs
    /\ call.kwargs["rating"] = Junk
    /\ call.ret.kind = "ValidationError"
    /\ call.ret.fields = {"content", "rating"}
    /\ obj = NoObject

\* C8: reconstructing an event from its mapping representation yields an
\* event of the same type equal to the original in every field, event_type,
\* event_id and timestamp included.
C8_RoundTrip ==
    call.op = "round_trip" =>
        /\ call.ret.kind = call.original.kind
        /\ \A f \in DOMAIN call.original.f : call.ret.f[f] = call.original.f[f]

\* C8 witness: a UserSessionEvent with generated event_id and timestamp was
\* serialised (event_type as its dotted string) and reconstructed later.
C8_Witness ==
    /\ call.op = "round_trip"
    /\ call.original.kind = "UserSessionEvent"
    /\ call.original.f["event_id"] = PyUuid(1)
    /\ call.original.f["timestamp"] = PyDateTime(0)
    /\ clock > 0
    /\ call.mapping["event_type"] = PyStr("user.session")
    /\ IsEvent(call.ret)
    /\ call.ret.f["event_type"] = PyEnum("USER_SESSION")

\* C19: an event constructed without event_id and timestamp has both: the
\* event_id is a UUID generated for that construction, different from every
\* one generated before (those are the UUIDs 1..issued), and the timestamp is
\* the time of the construction; supplied values are kept.
C19_IdentityAndTime ==
    call.op = "Event" /\ IsEvent(call.ret) =>
        /\ IF "event_id" \in DOMAIN call.kwargs
           THEN call.ret.f["event_id"] = call.kwargs["event_id"]
           ELSE /\ call.ret.f["event_id"].t = "uuid"
                /\ call.ret.f["event_id"].n \notin 1..call.issued
        /\ IF "timestamp" \in DOMAIN call.kwargs
           THEN call.ret.f["timestamp"] = call.kwargs["timestamp"]
           ELSE call.ret.f["timestamp"] = PyDateTime(call.now)

\* C19 witness: a second construction without event_id and timestamp, made
\* after the clock advanced, got the second UUID and the later time.
C19_Witness ==
    /\ call.op = "Event"
    /\ IsEvent(call.ret)
    /\ "event_id" \notin DOMAIN call.kwargs
    /\ "timestamp" \notin DOMAIN call.kwargs
    /\ call.issued = 1
    /\ call.now = 1
    /\ obj.f["event_id"] = PyUuid(2)
    /\ obj.f["timestamp"] = PyDateTime(1)

\* C18 (as claimed): a constructed event is immutable: neither an attribute
\* assignment nor a change made through one of its fields alters any field of
\* the event in hand.
C18_EventImmutable ==
    call.op \in {"event_setattr", "append"} => obj = call.self

-----------------------------------------------------------------------------
(* Further properties of the configuration models.                         *)

\* the environment AWSConfig stores for the input e
NormalisedEnvironment(e) ==
    IF Truthy(e) /\ CaseEq(e, "production") THEN "production" ELSE "development"

\* C21: the prefix of an AWSConfig resource name comes from the normalised
\* environment, never from the environment as supplied: for an explicit
\* environment e and an explicit name n the stored name is n when n starts
\* with norm(e) + "-" and norm(e) + "-" + n otherwise, norm(e) being the
\* stored environment.
C21_PrefixFromNormalisedEnvironment ==
    (call.op = "AWSConfig" /\ "environment" \in DOMAIN call.kwargs) =>
        LET prefix == NormalisedEnvironment(call.kwargs["environment"]) \o "-"
        IN  /\ call.ret.kind = "AWSConfig"
            /\ call.ret.f["environment"] \o "-" = prefix
            /\ \A n \in ResourceNames \cap DOMAIN call.kwargs :
                  call.ret.f[n] = IF StartsWith(call.kwargs[n], prefix)
                                  THEN call.kwargs[n]
                                  ELSE prefix \o call.kwargs[n]

\* C21 witness: an upper-case environment put the lower-case prefix on an
\* explicit name.
C21_Witness ==
    /\ call.op = "AWSConfig"
    /\ DOMAIN call.kwargs = {"environment", "eventbridge_bus_name"}
    /\ call.kwargs["environment"] = "PRODUCTION"
    /\ call.kwargs["eventbridge_bus_name"] = "bus"
    /\ obj.kind = "AWSConfig"
    /\ obj.f["eventbridge_bus_name"] = "production-bus"

\* the fields AWSConfig has no validator for
UnvalidatedFields ==
    {"dev_account_id", "prod_account_id", "deployment_role_name",
     "execution_role_name", "profile", "access_key_id", "secret_access_key",
     "session_token", "eventbridge_source", "opensearch_endpoint"}

\* C22: AWSConfig construction changes only environment, region and the three
\* prefixed resource names: eventbridge_source, opensearch_endpoint, the
\* account ids, the role names, profile and the credential fields are stored
\* exactly as supplied, or as their defaults, and never receive a prefix.
C22_OtherFieldsKept ==
    call.op = "AWSConfig" =>
        /\ call.ret.kind = "AWSConfig"
        /\ \A f \in UnvalidatedFields : call.ret.f[f] = SuppliedAWS(f)

\* C22 witness: a production configuration kept the event source it was
\* given, without a prefix.
C22_Witness ==
    /\ call.op = "AWSConfig"
    /\ DOMAIN call.kwargs = {"environment", "eventbridge_source"}
    /\ call.kwargs["environment"] = "production"
    /\ call.kwargs["eventbridge_source"] = "orders.service"
    /\ obj.kind = "AWSConfig"
    /\ obj.f["eventbridge_source"] = "orders.service"
    /\ obj.f["eventbridge_bus_name"] = "production-event-bridge-log-bus"

-----------------------------------------------------------------------------
(* Properties of events alive together.                                    *)

\* C23: each UserSessionEvent constructed without conversion_events gets
\* its own new empty list: an append to one event's conversion_events adds
\* the item to that event's list and leaves the list of every other event
\* as it was, and an event constructed later without conversion_events
\* starts with an empty list whatever was appended before.
C23_OwnEmptyList ==
    /\ call.op = "session_append" =>
          /\ ConversionEvents(obj, call.target) =
                Append(ConversionEvents(call.before, call.target), call.item)
          /\ \A j \in 1..Len(obj.events) :
                j # call.target =>
                    ConversionEvents(obj, j) = ConversionEvents(call.before, j)
    /\ (/\ call.op = "UserSessionEvent"
        /\ call.ok
        /\ "conversion_events" \notin DOMAIN call.kwargs) =>
          /\ ConversionEvents(obj, Len(obj.events)) = << >>
          /\ \A j \in 1..Len(call.before.events) :
                ConversionEvents(obj, j) = ConversionEvents(call.before, j)

\* C23 witness: two events constructed without conversion_events (a
\* supplied list starts with add_to_cart), the first one appended to, the
\* second one still empty.
C23_Witness ==
    /\ call.op = "session_append"
    /\ call.target = 1
    /\ Len(obj.events) = 2
    /\ ConversionEvents(obj, 1) = <<"purchase">>
    /\ ConversionEvents(obj, 2) = << >>

====
